---- MODULE Spec2Model ----
(***************************************************************************)
(* A model of imgutil's two image backends: LocalImage (src/local.go), an  *)
(* image held by a docker daemon, and RemoteImage (src/remote.go), an      *)
(* image held by a registry.  One Image instance is modelled together with *)
(* the backend store it talks to.                                          *)
(*                                                                         *)
(* Strings that the code parses (environment entries) are sequences of     *)
(* one-character strings, so that Sprintf("%s=%s") and strings.Split are   *)
(* computed rather than assumed.  Diff IDs, image names and label keys are *)
(* never parsed and stay atomic strings.                                   *)
(***************************************************************************)
EXTENDS Integers, Sequences, FiniteSets, TLC

\* ---------------------------------------------------------------- bounds
\* Longest layer stack an operation may build, unless the stack it builds is no
\* longer than the one it started from.
MaxLayers == 2
\* Number of Save calls in one behaviour.
MaxSaves == 2
\* Longest environment sequence SetEnv may build.
MaxEnv == 2

\* ---------------------------------------------------------------- inputs
Names == {"base", "app", "base2", "none"}
DiffIDs == {"b1", "a1", "a2", "c1", "n1"}
\* Files a caller may hand to AddLayer: the file named d holds content whose
\* sha256 is d; "gone" names a path that does not exist.
UserFiles == {"n1"}
UserPaths == UserFiles \cup {"gone"}
LabelKeys == {"team"}
LabelVals == {<<"x">>, <<"y">>}
EnvKeys == {<<"F">>, <<"B">>}
EnvVals == {<<"1">>, <<"2">>, <<"a", "=", "b">>}
\* What the daemon or registry does when asked for the persisted image.
FetchOutcomes == {"ok", "ConfigUnreadable"}

EmptyStr == <<>>
NoLabels == [k \in {} |-> EmptyStr]
NoMap == [d \in {} |-> 0]

\* A container.Config as far as the code reads it; present = FALSE is the nil
\* *container.Config (local) or an unreadable config file (remote);
\* labelsNil = TRUE is a nil Labels map.
NilConfig == [present |-> FALSE, labelsNil |-> TRUE, Labels |-> NoLabels, Env |-> <<>>]
MissingImage == [found |-> FALSE, layers |-> <<>>, cfg |-> NilConfig]

\* The images the store (daemon or registry) holds when the Image is built.
InitStore ==
  [n \in Names |->
     CASE n = "base" ->
            [found |-> TRUE, layers |-> <<"b1">>,
             cfg |-> [present |-> TRUE, labelsNil |-> TRUE, Labels |-> NoLabels,
                      Env |-> <<>>]]
       [] n = "app" ->
            [found |-> TRUE, layers |-> <<"b1", "a1", "a2">>,
             cfg |-> [present |-> TRUE, labelsNil |-> FALSE,
                      Labels |-> [k \in {"team"} |-> <<"x">>],
                      Env |-> << <<"F", "=", "1">> >>]]
       [] n = "base2" ->
            [found |-> TRUE, layers |-> <<"c1">>,
             cfg |-> [present |-> TRUE, labelsNil |-> FALSE, Labels |-> NoLabels,
                      Env |-> <<>>]]
       [] OTHER -> MissingImage]

\* ---------------------------------------------------------------- state
VARIABLES
  backend,        \* "local" (LocalImage) or "remote" (RemoteImage)
  RepoName,       \* LocalImage.RepoName / RemoteImage.RepoName
  Config,         \* Inspect.Config / Image.ConfigFile().Config
  Layers,         \* Inspect.RootFS.Layers / Image.Layers() as diff IDs
  layerPaths,     \* LocalImage.layerPaths
  easyAddLayers,  \* LocalImage.easyAddLayers
  prevOnce,       \* TRUE once prevOnce.Do has run its function
  prevDir,        \* LocalImage.prevDir: 0 is "", g > 0 the g-th temp dir
  prevMap,        \* LocalImage.prevMap: diff ID -> index of its archive file
  prevArchive,    \* what the export left on disk in prevDir
  PrevLayers,     \* RemoteImage.PrevLayers
  store,          \* the daemon's / registry's images by name
  saves,          \* Save calls so far
  fetches,        \* fetches of the persisted image since construction or Save
  fetchErr,       \* what the last executed fetch returned ("none": not run)
  snapshot,       \* the persisted image's layers when that fetch was made
  last,           \* the last operation, its arguments and what it returned
  pc,             \* Save: where the calling goroutine is ("idle": not in Save)
  next,           \* Save: index of the range loop over l.layerPaths
  savePaths,      \* Save: its local layerPaths, the manifest's Layers list
  twErr,          \* Save: TRUE once a write through the tar writer has failed
  saveErr,        \* Save: the error the call is about to return
  pipe,           \* io.Pipe: "none", "open", "readerClosed", "writerClosed"
  loader,         \* the import goroutine: "none", "loading", "sending", "exited"
  loadErr,        \* the import goroutine's err: "none", "ok", "LoadFailed"
  stream,         \* what the daemon has read from the pipe
  loaded,         \* the daemon holds the image whose id this Save computed
  inspected       \* Save: what ImageInspectWithRaw(imgID) answered

vars == <<backend, RepoName, Config, Layers, layerPaths, easyAddLayers, prevOnce,
          prevDir, prevMap, prevArchive, PrevLayers, store, saves, fetches,
          fetchErr, snapshot, last, pc, next, savePaths, twErr, saveErr, pipe,
          loader, loadErr, stream, loaded, inspected>>

cacheVars == <<prevOnce, prevDir, prevMap, prevArchive, PrevLayers, fetches, fetchErr,
               snapshot>>

\* The state of a Save call in progress and of its import goroutine.
saveVars == <<pc, next, savePaths, twErr, saveErr, pipe, loader, loadErr, stream,
              loaded, inspected>>

\* ---------------------------------------------------------------- helpers
Range(s) == {s[i] : i \in DOMAIN s}

Min(S) == CHOOSE x \in S : \A y \in S : x <= y

\* layerPaths entries.  "" is EmptyPath; a caller's file; the idx-th layer file
\* of the temp dir gen.
EmptyPath == [kind |-> "empty", gen |-> 0, idx |-> 0, id |-> ""]
UserPath(f) == [kind |-> "user", gen |-> 0, idx |-> 0, id |-> f]
PrevPath(g, i) == [kind |-> "prev", gen |-> g, idx |-> i, id |-> ""]

NoArchive == [manifest |-> FALSE, entries |-> 0, layers |-> <<>>]

\* Nothing read from the pipe yet.  config and manifest hold at most one
\* element: the config's diff_ids list, the manifest's Layers list.
NoTar == [config |-> <<>>, layers |-> <<>>, manifest |-> <<>>]

\* MakePaths giving a list of no element whatever n is.
MakePathsNil(n) == <<>>

\* make([]string, n)
MakePaths(n) == [i \in 1..n |-> EmptyPath]

\* os.Open succeeds
PathExists(p) ==
  CASE p.kind = "user" -> p.id \in UserFiles
    [] p.kind = "prev" -> /\ p.gen = prevDir
                          /\ prevDir # 0
                          /\ p.idx \in 1..Len(prevArchive.layers)
    [] OTHER -> FALSE

\* FileSha giving every file the same hash.
FileShaOfNothing(p) == "b1"

\* sha256 of the file's bytes.  A layer file of a daemon export hashes to the
\* diff ID the export's config lists at the same position.
FileSha(p) ==
  IF p.kind = "user" THEN p.id ELSE prevArchive.layers[p.idx]

\* The last operation and what it returned: cache says whether the call went
\* through the previous-image gate, val is the returned string ("" is <<>>).
Ret(op, cache, err, val) == [op |-> op, cache |-> cache, err |-> err, val |-> val]

Init ==
  /\ backend \in {"local", "remote"}
  /\ RepoName \in Names
  /\ store = InitStore
  \* NewLocalImage / NewRemoteImage load what the store holds under the name;
  \* EmptyLocalImage starts from an empty config with an empty label map.
  /\ \E empty \in BOOLEAN :
       /\ empty => backend = "local"
       /\ Config = IF empty
                     THEN [present |-> TRUE, labelsNil |-> FALSE,
                           Labels |-> NoLabels, Env |-> <<>>]
                     ELSE InitStore[RepoName].cfg
       /\ Layers = IF empty THEN <<>> ELSE InitStore[RepoName].layers
       /\ layerPaths = IF empty \/ backend = "remote" THEN <<>>
                       ELSE MakePaths(Len(InitStore[RepoName].layers))
  /\ easyAddLayers = <<>>
  /\ prevOnce = FALSE
  /\ prevDir = 0
  /\ prevMap = NoMap
  /\ prevArchive = NoArchive
  /\ PrevLayers = <<>>
  /\ saves = 0
  /\ fetches = 0
  /\ fetchErr = "none"
  /\ snapshot = <<>>
  /\ last = Ret("New", FALSE, "ok", <<>>)
  /\ pc = "idle"
  /\ next = 0
  /\ savePaths = <<>>
  /\ twErr = FALSE
  /\ saveErr = "none"
  /\ pipe = "none"
  /\ loader = "none"
  /\ loadErr = "none"
  /\ stream = NoTar
  /\ loaded = FALSE
  /\ inspected = "none"

\* ------------------------------------------------- previous-image cache
Max(S) == CHOOSE x \in S : \A y \in S : x >= y

\* IndexLayers with every diff ID mapped to the first layer file.
IndexLayersFirstFile(ls) == [d \in Range(ls) |-> 1]

\* local.go 474-478: the last layer file listed for a diff ID wins.
IndexLayers(ls) == [d \in Range(ls) |-> Max({i \in DOMAIN ls : ls[i] = d})]

Cache(err, once, dir, map, archive, n, ferr) ==
  [err |-> err, once |-> once, dir |-> dir, map |-> map, archive |-> archive,
   fetches |-> n, fetchErr |-> ferr,
   snapshot |-> IF n = fetches THEN snapshot ELSE store[RepoName].layers]

\* The function handed to prevOnce.Do (local.go 408-479), for one outcome of the
\* export: which fields it leaves set depends on how far it got.
DownloadBody(outcome) ==
  LET img == store[RepoName]
      dir == saves + 1      \* ioutil.TempDir: a fresh directory
      full == [manifest |-> TRUE, entries |-> 1, layers |-> img.layers]
  IN  CASE ~img.found \/ outcome = "ExportFailed" ->
             Cache("ExportFailed", TRUE, prevDir, prevMap, prevArchive,
                   fetches + 1, "ExportFailed")
        [] outcome = "UntarFailed" ->
             Cache("UntarFailed", TRUE, dir, prevMap, NoArchive,
                   fetches + 1, "UntarFailed")
        [] outcome = "BadManifestCount" ->
             Cache("BadManifestCount", TRUE, dir, prevMap,
                   [full EXCEPT !.entries = 2], fetches + 1, "BadManifestCount")
        [] outcome = "ConfigUnreadable" ->
             Cache("ConfigUnreadable", TRUE, dir, prevMap, full,
                   fetches + 1, "ConfigUnreadable")
        [] OTHER ->
             Cache("ok", TRUE, dir, IndexLayers(img.layers), full,
                   fetches + 1, "ok")

\* OnceDo without the gate: the function runs on every call.
OnceDoEveryCall(done, body, skipped) == body

\* sync.Once.Do: run the function unless it has run.
OnceDo(done, body, skipped) == IF done THEN skipped ELSE body

\* LocalImage.prevDownload.  outerErr is a local of the call, so a call that
\* finds the gate already fired returns nil.
prevDownload(outcome) ==
  OnceDo(prevOnce, DownloadBody(outcome),
         Cache("ok", prevOnce, prevDir, prevMap, prevArchive, fetches, fetchErr))

SetCache(c) ==
  /\ prevOnce' = c.once
  /\ prevDir' = c.dir
  /\ prevMap' = c.map
  /\ prevArchive' = c.archive
  /\ fetches' = c.fetches
  /\ fetchErr' = c.fetchErr
  /\ snapshot' = c.snapshot
  /\ PrevLayers' = PrevLayers

\* ------------------------------------------------- local layer operations
IsLocal == backend = "local"
IsRemote == backend = "remote"

\* The bound on growth: a stack of n layers may be built.
Fits(n) == n <= MaxLayers \/ n <= Len(Layers)

\* The index (from 1) of the first layer equal to top, 0 when there is none.
FirstIndex(ls, top) ==
  IF top \in Range(ls) THEN Min({i \in DOMAIN ls : ls[i] = top}) ELSE 0

\* keepLayersOf with keepLayers starting at 0 instead of -1.
keepLayersOfNoSentinel(ls, top) ==
  IF FirstIndex(ls, top) = 0 THEN 0 ELSE Len(ls) - FirstIndex(ls, top)

\* local.go 148-154: the number of layers above the first layer equal to top,
\* -1 when top is not a layer.
keepLayersOf(ls, top) ==
  IF FirstIndex(ls, top) = 0 THEN -1 ELSE Len(ls) - FirstIndex(ls, top)

\* LocalImage.Rename and sameBase
sameBase(prevLayers) ==
  /\ Len(prevLayers) >= Len(Layers)
  /\ \A i \in DOMAIN Layers : Layers[i] = prevLayers[i]

\* restOf without the slice: the whole stack of the target.
restOfWhole(prevLayers) == prevLayers

\* prevInspect.RootFS.Layers[len(l.Inspect.RootFS.Layers):]
restOf(prevLayers) == SubSeq(prevLayers, Len(Layers) + 1, Len(prevLayers))

LocalRename(name) ==
  /\ IsLocal
  /\ easyAddLayers' =
       IF store[name].found /\ sameBase(store[name].layers)
         THEN restOf(store[name].layers)
         ELSE <<>>
  /\ RepoName' = name
  /\ last' = Ret("Rename", FALSE, "ok", <<>>)
  /\ UNCHANGED <<backend, Config, Layers, layerPaths, cacheVars, store, saves, saveVars>>

\* LocalImage.AddLayer
LocalAddLayer(f) ==
  /\ IsLocal
  /\ IF PathExists(UserPath(f))
       THEN /\ Fits(Len(Layers) + 1)
            /\ Layers' = Append(Layers, FileSha(UserPath(f)))
            /\ layerPaths' = Append(layerPaths, UserPath(f))
            /\ easyAddLayers' = <<>>
            /\ last' = Ret("AddLayer", FALSE, "ok", <<>>)
       ELSE /\ last' = Ret("AddLayer", FALSE, "OpenFailed", <<>>)
            /\ UNCHANGED <<Layers, layerPaths, easyAddLayers>>
  /\ UNCHANGED <<backend, RepoName, Config, cacheVars, store, saves, saveVars>>

\* LocalImage.ReuseLayer
LocalReuseLayer(sha, outcome) ==
  /\ IsLocal
  /\ IF Len(easyAddLayers) > 0 /\ easyAddLayers[1] = sha
       THEN /\ Fits(Len(Layers) + 1)
            /\ Layers' = Append(Layers, sha)
            /\ layerPaths' = Append(layerPaths, EmptyPath)
            /\ easyAddLayers' = Tail(easyAddLayers)
            /\ last' = Ret("ReuseLayer", FALSE, "ok", <<>>)
            /\ UNCHANGED cacheVars
       ELSE LET c == prevDownload(outcome) IN
            /\ SetCache(c)
            /\ IF c.err # "ok"
                 THEN /\ last' = Ret("ReuseLayer", TRUE, c.err, <<>>)
                      /\ UNCHANGED <<Layers, layerPaths, easyAddLayers>>
                 ELSE IF sha \notin DOMAIN c.map
                 THEN /\ last' = Ret("ReuseLayer", TRUE, "LayerNotFound", <<>>)
                      /\ UNCHANGED <<Layers, layerPaths, easyAddLayers>>
                 ELSE \* AddLayer(filepath.Join(l.prevDir, reuseLayer))
                      /\ Fits(Len(Layers) + 1)
                      /\ Layers' = Append(Layers, c.archive.layers[c.map[sha]])
                      /\ layerPaths' = Append(layerPaths, PrevPath(c.dir, c.map[sha]))
                      /\ easyAddLayers' = <<>>
                      /\ last' = Ret("ReuseLayer", TRUE, "ok", <<>>)
  /\ UNCHANGED <<backend, RepoName, Config, store, saves, saveVars>>

\* LocalImage.GetLayer
LocalGetLayer(sha, outcome) ==
  /\ IsLocal
  /\ LET c == prevDownload(outcome) IN
     /\ SetCache(c)
     /\ last' = IF c.err # "ok" THEN Ret("GetLayer", TRUE, c.err, <<>>)
                ELSE IF sha \notin DOMAIN c.map
                  THEN Ret("GetLayer", TRUE, "LayerNotFound", <<>>)
                  ELSE Ret("GetLayer", TRUE, "ok",
                           <<c.archive.layers[c.map[sha]]>>)
  /\ UNCHANGED <<backend, RepoName, Config, Layers, layerPaths, easyAddLayers,
                 store, saves, saveVars>>

\* LocalImage.TopLayer: all[len(all)-1] on an empty slice is an index out of
\* range, a run-time panic.
LocalTopLayer ==
  /\ IsLocal
  /\ last' = IF Len(Layers) = 0
               THEN Ret("TopLayer", FALSE, "panic", <<>>)
               ELSE Ret("TopLayer", FALSE, "ok", <<Layers[Len(Layers)]>>)
  /\ UNCHANGED <<backend, RepoName, Config, Layers, layerPaths, easyAddLayers,
                 cacheVars, store, saves, saveVars>>

\* LocalImage.Rebase.  The base layers are replaced before the export is read,
\* and the retained layers are the last keepLayers layer files of the export of
\* the image the daemon holds under RepoName.
LocalRebase(top, nb, outcome) ==
  /\ IsLocal
  /\ LET keep == keepLayersOf(Layers, top)
         base == store[nb]
         c == prevDownload(outcome)
         m == c.archive.layers
         n == Len(base.layers)
         swapped == /\ Layers' = base.layers
                    /\ layerPaths' = MakePaths(n)
                    /\ UNCHANGED easyAddLayers
     IN
     IF keep = -1
       THEN /\ last' = Ret("Rebase", FALSE, "SplitPointNotFound", <<>>)
            /\ UNCHANGED <<Layers, layerPaths, easyAddLayers, cacheVars>>
     ELSE IF ~base.found
       THEN /\ last' = Ret("Rebase", FALSE, "BaseImageUnreadable", <<>>)
            /\ UNCHANGED <<Layers, layerPaths, easyAddLayers, cacheVars>>
     ELSE
       /\ SetCache(c)
       /\ IF c.err # "ok"
            THEN swapped /\ last' = Ret("Rebase", TRUE, c.err, <<>>)
          ELSE IF c.dir = 0 \/ ~c.archive.manifest
            THEN swapped /\ last' = Ret("Rebase", TRUE, "ManifestUnreadable", <<>>)
          ELSE IF c.archive.entries # 1
            THEN swapped /\ last' = Ret("Rebase", TRUE, "ArchiveCorrupt", <<>>)
          ELSE IF keep > Len(m)
            \* manifest[0].Layers[len-keepLayers:] with a negative bound
            THEN swapped /\ last' = Ret("Rebase", TRUE, "panic", <<>>)
          ELSE
            /\ Fits(n + keep)
            /\ Layers' = base.layers \o SubSeq(m, Len(m) - keep + 1, Len(m))
            /\ layerPaths' = MakePaths(n) \o
                 [i \in 1..keep |-> PrevPath(c.dir, Len(m) - keep + i)]
            /\ easyAddLayers' = IF keep > 0 THEN <<>> ELSE easyAddLayers
            /\ last' = Ret("Rebase", TRUE, "ok", <<>>)
  /\ UNCHANGED <<backend, RepoName, Config, store, saves, saveVars>>

\* What the daemon keeps of a loaded image's config: it always reports one.
StoredConfig(cfg) ==
  IF cfg.present THEN cfg
  ELSE [present |-> TRUE, labelsNil |-> TRUE, Labels |-> NoLabels, Env |-> <<>>]

\* ------------------------------------------------------- LocalImage.Save
\* Save runs in the calling goroutine (pc) and writes the archive into a
\* pipe; the goroutine it starts (loader) hands the read end to ImageLoad and
\* sends ImageLoad's error on the unbuffered channel done.

\* The caller is in no Save: other operations may be called.
Idle == pc = "idle"

\* pw.Write hands its bytes to a reader that is in Read: io.Pipe has no buffer.
CanWrite == pipe = "open" /\ loader = "loading"

\* pw.Write returns io.ErrClosedPipe once the read end is closed.
WriteFails == pipe = "readerClosed"

\* The variables of the image and of its cache, which writing the archive
\* leaves alone.
saveFrame == <<backend, RepoName, Config, Layers, layerPaths, easyAddLayers,
               cacheVars, store, last>>

\* local.go 285-310: the pipe, the goroutine, the tar writer, configFile().
SaveStart ==
  /\ IsLocal
  /\ Idle
  /\ saves < MaxSaves
  /\ saves' = saves + 1
  /\ pc' = "config"
  /\ next' = 1
  /\ savePaths' = <<>>
  /\ twErr' = FALSE
  /\ saveErr' = "none"
  /\ pipe' = "open"
  /\ loader' = "loading"
  /\ loadErr' = "none"
  /\ stream' = NoTar
  /\ loaded' = FALSE
  /\ inspected' = "none"
  /\ UNCHANGED saveFrame

\* A return before the join of line 356: the error is kept while the deferred
\* calls run.
ReturnEarly(err, twFailed) ==
  /\ pc' = "unwind"
  /\ saveErr' = err
  /\ twErr' = twFailed

\* local.go 315-318: addTextToTar(tw, imgID+".json", configFile); the config
\* carries l.Inspect.RootFS.Layers as diff_ids (configFile, 377-388).
WriteConfig ==
  /\ pc = "config"
  /\ \/ /\ CanWrite
        /\ stream' = [stream EXCEPT !.config = <<Layers>>]
        /\ pc' = "layers"
        /\ UNCHANGED <<saveErr, twErr>>
     \/ /\ WriteFails
        /\ ReturnEarly("ClosedPipe", TRUE)
        /\ UNCHANGED stream
  /\ UNCHANGED <<saves, next, savePaths, pipe, loader, loadErr, loaded, inspected>>
  /\ UNCHANGED saveFrame

\* layerName naming every entry with the empty string.
layerNameEmpty(path) == EmptyPath

\* local.go 326: fmt.Sprintf("/%x.tar", sha256.Sum256([]byte(path))), a name
\* that tells the path it was made from and is never the empty string.
layerName(path) == [kind |-> "tar", gen |-> path.gen, idx |-> path.idx, id |-> path.id]

\* local.go 320-336: one iteration of the loop over l.layerPaths.
SaveLayer ==
  /\ pc = "layers"
  /\ next <= Len(layerPaths)
  /\ LET path == layerPaths[next] IN
       \/ /\ path = EmptyPath
          /\ savePaths' = Append(savePaths, EmptyPath)
          /\ next' = next + 1
          /\ UNCHANGED <<pc, saveErr, twErr, stream>>
       \/ /\ path # EmptyPath
          /\ ~PathExists(path)
          /\ ReturnEarly("OpenFailed", FALSE)
          /\ UNCHANGED <<next, savePaths, stream>>
       \/ /\ path # EmptyPath
          /\ PathExists(path)
          /\ CanWrite
          /\ stream' = [stream EXCEPT !.layers = Append(@, layerName(path))]
          /\ savePaths' = Append(savePaths, layerName(path))
          /\ next' = next + 1
          /\ UNCHANGED <<pc, saveErr, twErr>>
       \/ /\ path # EmptyPath
          /\ PathExists(path)
          /\ WriteFails
          /\ ReturnEarly("ClosedPipe", TRUE)
          /\ UNCHANGED <<next, savePaths, stream>>
  /\ UNCHANGED <<saves, pipe, loader, loadErr, loaded, inspected>>
  /\ UNCHANGED saveFrame

\* local.go 338-352: the manifest lists Save's layerPaths.
WriteManifest ==
  /\ pc = "layers"
  /\ next > Len(layerPaths)
  /\ \/ /\ CanWrite
        /\ stream' = [stream EXCEPT !.manifest = <<savePaths>>]
        /\ pc' = "close"
        /\ UNCHANGED <<saveErr, twErr>>
     \/ /\ WriteFails
        /\ ReturnEarly("ClosedPipe", TRUE)
        /\ UNCHANGED stream
  /\ UNCHANGED <<saves, next, savePaths, pipe, loader, loadErr, loaded, inspected>>
  /\ UNCHANGED saveFrame

\* tw.Close() writes the tar trailer unless a write has failed before; its
\* error is dropped.  pw.Close() then ends the stream.
CloseWriters ==
  /\ twErr \/ CanWrite \/ WriteFails
  /\ pipe' = IF pipe = "open" THEN "writerClosed" ELSE pipe

\* local.go 354-355
SaveClose ==
  /\ pc = "close"
  /\ CloseWriters
  /\ pc' = "join"
  /\ UNCHANGED <<saves, next, savePaths, twErr, saveErr, loader, loadErr, stream,
                 loaded, inspected>>
  /\ UNCHANGED saveFrame

\* local.go 356: err = <-done, with the goroutine's send (299 or 305).
SaveJoin ==
  /\ pc = "join"
  /\ loader = "sending"
  /\ saveErr' = loadErr
  /\ loader' = "exited"
  /\ pc' = "inspect"
  /\ UNCHANGED <<saves, next, savePaths, twErr, pipe, loadErr, stream, loaded,
                 inspected>>
  /\ UNCHANGED saveFrame

\* Save returns: its locals are gone, the caller goes on.
Return ==
  /\ pc' = "idle"
  /\ next' = 0
  /\ savePaths' = <<>>
  /\ twErr' = FALSE
  /\ saveErr' = "none"

\* SaveResult returning the id with the error of the join, without looking at
\* the inspect's answer.
SaveResultOfJoin(err, answer) == Ret("Save", FALSE, err, <<"imgID">>)

\* local.go 367-374: err is assigned the inspect's error, whatever it held.
SaveResult(err, answer) ==
  CASE answer = "found" -> Ret("Save", FALSE, "ok", <<"imgID">>)
    [] answer = "notfound" -> Ret("Save", FALSE, "SaveFailed", <<>>)
    [] OTHER -> Ret("Save", FALSE, "InspectFailed", <<>>)

\* local.go 358-374: drop the previous-image cache, inspect imgID, return.
SaveInspect(reachable) ==
  /\ pc = "inspect"
  /\ IF prevDir # 0
       THEN /\ prevDir' = 0
            /\ prevMap' = NoMap
            /\ prevArchive' = NoArchive
            /\ prevOnce' = FALSE
            /\ fetchErr' = "none"
            /\ snapshot' = <<>>
            /\ fetches' = 0
       ELSE UNCHANGED <<prevOnce, prevDir, prevMap, prevArchive, fetchErr, snapshot,
                        fetches>>
  /\ inspected' = IF ~reachable THEN "error"
                  ELSE IF loaded THEN "found" ELSE "notfound"
  /\ last' = SaveResult(saveErr, inspected')
  /\ Return
  /\ UNCHANGED <<saves, pipe, loader, loadErr, stream, loaded>>
  /\ UNCHANGED <<backend, RepoName, Config, Layers, layerPaths, easyAddLayers,
                 PrevLayers, store>>

\* The deferred tw.Close() and pw.Close() of an early return (295, 309).
SaveUnwind ==
  /\ pc = "unwind"
  /\ CloseWriters
  /\ last' = Ret("Save", FALSE, saveErr, <<>>)
  /\ Return
  /\ UNCHANGED <<saves, loader, loadErr, stream, loaded, inspected>>
  /\ UNCHANGED <<backend, RepoName, Config, Layers, layerPaths, easyAddLayers,
                 cacheVars, store>>

\* local.go 297-301: ImageLoad returns an error before the stream's end.  The
\* reader was handed over as an io.Reader; Save never closes it, the client
\* may (closes) or may not have.
LoadFails(closes) ==
  /\ loader = "loading"
  /\ pipe = "open"
  /\ loader' = "sending"
  /\ loadErr' = "LoadFailed"
  /\ pipe' = IF closes THEN "readerClosed" ELSE pipe
  /\ UNCHANGED <<saves, pc, next, savePaths, twErr, saveErr, stream, loaded,
                 inspected>>
  /\ UNCHANGED saveFrame

\* The stream holds a config and a manifest: the daemon can import it.
Complete(tar) == tar.config # <<>> /\ tar.manifest # <<>>

\* local.go 297-305: ImageLoad has read the stream to its end.  The daemon
\* imports the image or not (imports), and the call returns the daemon's
\* response or an error (respOK).
LoadEnds(imports, respOK) ==
  /\ loader = "loading"
  /\ pipe = "writerClosed"
  /\ imports => Complete(stream)
  /\ loaded' = imports
  /\ store' = IF imports
                THEN [store EXCEPT ![RepoName] =
                        [found |-> TRUE, layers |-> stream.config[1],
                         cfg |-> StoredConfig(Config)]]
                ELSE store
  /\ loader' = "sending"
  /\ loadErr' = IF respOK THEN "ok" ELSE "LoadFailed"
  /\ UNCHANGED <<saves, pc, next, savePaths, twErr, saveErr, pipe, stream, inspected>>
  /\ UNCHANGED <<backend, RepoName, Config, Layers, layerPaths, easyAddLayers,
                 cacheVars, last>>

\* ------------------------------------------------- remote layer operations
RemoteOutcomes == {"ok", "LayersUnreadable"}

\* RemoteImage.Rename
RemoteRename(name) ==
  /\ IsRemote
  /\ RepoName' = name
  /\ last' = Ret("Rename", FALSE, "ok", <<>>)
  /\ UNCHANGED <<backend, Config, Layers, layerPaths, easyAddLayers, cacheVars,
                 store, saves, saveVars>>

\* RemoteImage.AddLayer.  Appending to an image the registry does not hold is
\* left to the registry library and is outside the model (Config.present).
RemoteAddLayer(f) ==
  /\ IsRemote
  /\ Config.present
  /\ IF f \in UserFiles
       THEN /\ Fits(Len(Layers) + 1)
            /\ Layers' = Append(Layers, f)
            /\ last' = Ret("AddLayer", FALSE, "ok", <<>>)
       ELSE /\ last' = Ret("AddLayer", FALSE, "OpenFailed", <<>>)
            /\ UNCHANGED Layers
  /\ UNCHANGED <<backend, RepoName, Config, layerPaths, easyAddLayers, cacheVars,
                 store, saves, saveVars>>

\* The function handed to prevOnce.Do in RemoteImage.ReuseLayer (remote.go
\* 235-245): [err, layers] after it ran.
RemoteFetchBody(outcome) ==
  IF store[RepoName].found /\ outcome = "ok"
    THEN [err |-> "ok", layers |-> store[RepoName].layers]
    ELSE [err |-> "LayersUnreadable", layers |-> <<>>]

\* findLayerWithSha returning the last layer it looked at when none matches.
findLayerWithShaNoMiss(layers, sha) ==
  IF \E i \in DOMAIN layers : layers[i] = sha
    THEN [err |-> "ok", layer |-> layers[Min({i \in DOMAIN layers : layers[i] = sha})]]
  ELSE IF layers # <<>>
    THEN [err |-> "ok", layer |-> layers[Len(layers)]]
    ELSE [err |-> "LayerNotFound", layer |-> ""]

\* findLayerWithSha
findLayerWithSha(layers, sha) ==
  IF \E i \in DOMAIN layers : layers[i] = sha
    THEN [err |-> "ok", layer |-> layers[Min({i \in DOMAIN layers : layers[i] = sha})]]
    ELSE [err |-> "LayerNotFound", layer |-> ""]

\* RemoteImage.ReuseLayer.  outerErr is a local of the call, as in prevDownload.
RemoteReuseLayer(sha, outcome) ==
  /\ IsRemote
  /\ Config.present
  /\ LET f == OnceDo(prevOnce, RemoteFetchBody(outcome),
                     [err |-> "ok", layers |-> PrevLayers])
         found == findLayerWithSha(f.layers, sha)
     IN
     /\ PrevLayers' = f.layers
     /\ prevOnce' = TRUE
     /\ fetches' = IF prevOnce THEN fetches ELSE fetches + 1
     /\ fetchErr' = IF prevOnce THEN fetchErr ELSE f.err
     /\ snapshot' = IF prevOnce THEN snapshot ELSE store[RepoName].layers
     /\ IF f.err # "ok"
          THEN /\ last' = Ret("ReuseLayer", TRUE, f.err, <<>>)
               /\ UNCHANGED Layers
        ELSE IF found.err # "ok"
          THEN /\ last' = Ret("ReuseLayer", TRUE, found.err, <<>>)
               /\ UNCHANGED Layers
        ELSE /\ Fits(Len(Layers) + 1)
             /\ Layers' = Append(Layers, found.layer)
             /\ last' = Ret("ReuseLayer", TRUE, "ok", <<>>)
  /\ UNCHANGED <<backend, RepoName, Config, layerPaths, easyAddLayers, prevDir,
                 prevMap, prevArchive, store, saves, saveVars>>

\* subImage.Layers: the layers up to and including the first one whose diff ID
\* is topSHA.
subImageLayers(all, topSHA) ==
  IF FirstIndex(all, topSHA) = 0
    THEN [err |-> "SplitPointNotFound", layers |-> <<>>]
    ELSE [err |-> "ok", layers |-> SubSeq(all, 1, FirstIndex(all, topSHA))]

\* mutateRebase keeping the top layer of oldBase as well.
mutateRebaseFromSplit(orig, oldBase, newBase) ==
  newBase \o SubSeq(orig, Len(oldBase), Len(orig))

\* mutate.Rebase(orig, oldBase, newBase) of the registry library, called at
\* remote.go 137: newBase's layers under orig's layers above oldBase.
mutateRebase(orig, oldBase, newBase) ==
  newBase \o SubSeq(orig, Len(oldBase) + 1, Len(orig))

\* RemoteImage.Rebase onto the remote image of name nb.
RemoteRebase(top, nb) ==
  /\ IsRemote
  /\ LET old == subImageLayers(Layers, top)
         base == store[nb]
     IN
     IF ~Config.present
       THEN /\ last' = Ret("Rebase", FALSE, "ImageUnreadable", <<>>)
            /\ UNCHANGED Layers
     ELSE IF old.err # "ok"
       THEN /\ last' = Ret("Rebase", FALSE, old.err, <<>>)
            /\ UNCHANGED Layers
     ELSE IF ~base.found
       THEN /\ last' = Ret("Rebase", FALSE, "BaseImageUnreadable", <<>>)
            /\ UNCHANGED Layers
     ELSE /\ Fits(Len(base.layers) + Len(Layers) - Len(old.layers))
          /\ Layers' = mutateRebase(Layers, old.layers, base.layers)
          /\ last' = Ret("Rebase", FALSE, "ok", <<>>)
  /\ UNCHANGED <<backend, RepoName, Config, layerPaths, easyAddLayers, cacheVars,
                 store, saves, saveVars>>

\* The backends an Image handed in as newBase may be of.
BaseKinds == {"local", "remote"}

\* LocalImage.Rebase onto an image of backend kind and name nb.  The code uses
\* newBase through newBase.Name() alone (local.go 160), which it looks up in
\* the daemon: the kind of newBase changes nothing.
LocalRebaseOn(top, kind, nb, outcome) ==
  /\ kind \in BaseKinds
  /\ LocalRebase(top, nb, outcome)

\* RemoteImage.Rebase onto an image of backend kind and name nb: the type
\* assertion of remote.go 132-135 comes first.
RemoteRebaseOn(top, kind, nb) ==
  IF kind = "remote"
    THEN RemoteRebase(top, nb)
    ELSE /\ IsRemote
         /\ last' = Ret("Rebase", FALSE, "BackendUnsupported", <<>>)
         /\ UNCHANGED <<backend, RepoName, Config, Layers, layerPaths,
                        easyAddLayers, cacheVars, store, saves, saveVars>>

\* RemoteImage.TopLayer
RemoteTopLayer ==
  /\ IsRemote
  /\ last' = IF ~Config.present
               THEN Ret("TopLayer", FALSE, "ImageUnreadable", <<>>)
             ELSE IF Len(Layers) = 0
               THEN Ret("TopLayer", FALSE, "panic", <<>>)
             ELSE Ret("TopLayer", FALSE, "ok", <<Layers[Len(Layers)]>>)
  /\ UNCHANGED <<backend, RepoName, Config, Layers, layerPaths, easyAddLayers,
                 cacheVars, store, saves, saveVars>>

\* RemoteImage.GetLayer
RemoteGetLayer(sha) ==
  /\ IsRemote
  /\ last' = Ret("GetLayer", FALSE, "panic", <<>>)
  /\ UNCHANGED <<backend, RepoName, Config, Layers, layerPaths, easyAddLayers,
                 cacheVars, store, saves, saveVars>>

\* RemoteImage.Save
RemoteSave(writeOK) ==
  /\ IsRemote
  /\ saves < MaxSaves
  /\ saves' = saves + 1
  /\ fetches' = 0
  /\ IF Config.present /\ writeOK
       THEN /\ store' = [store EXCEPT ![RepoName] =
                           [found |-> TRUE, layers |-> Layers, cfg |-> Config]]
            /\ last' = Ret("Save", FALSE, "ok", <<"digest">>)
       ELSE /\ store' = store
            /\ last' = Ret("Save", FALSE, "WriteFailed", <<>>)
  /\ UNCHANGED <<backend, RepoName, Config, Layers, layerPaths, easyAddLayers,
                 prevOnce, prevDir, prevMap, prevArchive, PrevLayers, fetchErr,
                 snapshot, saveVars>>

\* ------------------------------------------------- configuration operations
\* strings.Split(s, "=")
RECURSIVE Split(_)
Split(s) ==
  IF \E i \in DOMAIN s : s[i] = "="
    THEN LET i == Min({j \in DOMAIN s : s[j] = "="})
         IN  <<SubSeq(s, 1, i - 1)>> \o Split(SubSeq(s, i + 1, Len(s)))
    ELSE <<s>>

\* fmt.Sprintf("%s=%s", key, val)
EnvEntry(key, val) == key \o <<"=">> \o val

\* The entries whose text before the first "=" is key.
EnvMatches(env, key) == {i \in DOMAIN env : Split(env[i])[1] = key}

\* EnvLookup treating a key with no entry as an error.
EnvLookupMissingIsError(env, key) ==
  IF EnvMatches(env, key) = {} THEN [err |-> "NotFound", val |-> EmptyStr]
  ELSE LET parts == Split(env[Min(EnvMatches(env, key))])
       IN  IF Len(parts) < 2 THEN [err |-> "panic", val |-> EmptyStr]
           ELSE [err |-> "ok", val |-> parts[2]]

\* The loop of Env (local.go 78-84, remote.go 85-91): parts[1] of the first
\* entry whose parts[0] is key, "" when there is none.
EnvLookup(env, key) ==
  IF EnvMatches(env, key) = {} THEN [err |-> "ok", val |-> EmptyStr]
  ELSE LET parts == Split(env[Min(EnvMatches(env, key))])
       IN  IF Len(parts) < 2 THEN [err |-> "panic", val |-> EmptyStr]
           ELSE [err |-> "ok", val |-> parts[2]]

\* labels[key] of a Go map: "" for a missing key and for a nil map
LabelLookup(cfg, key) ==
  IF key \in DOMAIN cfg.Labels THEN cfg.Labels[key] ELSE EmptyStr

SetKey(m, key, val) ==
  [k \in DOMAIN m \cup {key} |-> IF k = key THEN val ELSE m[k]]

layerVars == <<Layers, layerPaths, easyAddLayers, cacheVars, store, saves, saveVars>>

\* LocalImage.Label
LocalLabel(key) ==
  /\ IsLocal
  /\ last' = IF ~Config.present
               THEN Ret("Label", FALSE, "NotFound", EmptyStr)
               ELSE Ret("Label", FALSE, "ok", LabelLookup(Config, key))
  /\ UNCHANGED <<backend, RepoName, Config, layerVars>>

\* RemoteImage.Label
RemoteLabel(key) ==
  /\ IsRemote
  /\ last' = IF ~Config.present
               THEN Ret("Label", FALSE, "NotFound", EmptyStr)
               ELSE Ret("Label", FALSE, "ok", LabelLookup(Config, key))
  /\ UNCHANGED <<backend, RepoName, Config, layerVars>>

\* LocalImage.Env
LocalEnv(key) ==
  /\ IsLocal
  /\ last' = IF ~Config.present
               THEN Ret("Env", FALSE, "NotFound", EmptyStr)
               ELSE Ret("Env", FALSE, EnvLookup(Config.Env, key).err,
                           EnvLookup(Config.Env, key).val)
  /\ UNCHANGED <<backend, RepoName, Config, layerVars>>

\* RemoteImage.Env
RemoteEnv(key) ==
  /\ IsRemote
  /\ last' = IF ~Config.present
               THEN Ret("Env", FALSE, "NotFound", EmptyStr)
               ELSE Ret("Env", FALSE, EnvLookup(Config.Env, key).err,
                           EnvLookup(Config.Env, key).val)
  /\ UNCHANGED <<backend, RepoName, Config, layerVars>>

\* LocalImage.SetLabel: an assignment into a nil map is a run-time panic.
LocalSetLabel(key, val) ==
  /\ IsLocal
  /\ IF ~Config.present
       THEN /\ last' = Ret("SetLabel", FALSE, "NotFound", EmptyStr)
            /\ UNCHANGED Config
     ELSE IF Config.labelsNil
       THEN /\ last' = Ret("SetLabel", FALSE, "panic", EmptyStr)
            /\ UNCHANGED Config
     ELSE /\ Config' = [Config EXCEPT !.Labels = SetKey(Config.Labels, key, val)]
          /\ last' = Ret("SetLabel", FALSE, "ok", EmptyStr)
  /\ UNCHANGED <<backend, RepoName, layerVars>>

\* RemoteImage.SetLabel
RemoteSetLabel(key, val) ==
  /\ IsRemote
  /\ IF ~Config.present
       THEN /\ last' = Ret("SetLabel", FALSE, "NotFound", EmptyStr)
            /\ UNCHANGED Config
       ELSE /\ Config' = [Config EXCEPT !.labelsNil = FALSE,
                                        !.Labels = SetKey(Config.Labels, key, val)]
            /\ last' = Ret("SetLabel", FALSE, "ok", EmptyStr)
  /\ UNCHANGED <<backend, RepoName, layerVars>>

\* The environment LocalImage.SetEnv leaves (local.go 207): always an append.
localSetEnv(env, key, val) == Append(env, EnvEntry(key, val))

\* The environment RemoteImage.SetEnv leaves (remote.go 165-177): the first
\* entry for key rewritten in place, else an append.
remoteSetEnv(env, key, val) ==
  IF EnvMatches(env, key) # {}
    THEN [env EXCEPT ![Min(EnvMatches(env, key))] = EnvEntry(key, val)]
    ELSE Append(env, EnvEntry(key, val))

\* LocalImage.SetEnv
LocalSetEnv(key, val) ==
  /\ IsLocal
  /\ Len(Config.Env) < MaxEnv
  /\ IF ~Config.present
       THEN /\ last' = Ret("SetEnv", FALSE, "NotFound", EmptyStr)
            /\ UNCHANGED Config
       ELSE /\ Config' = [Config EXCEPT !.Env = localSetEnv(Config.Env, key, val)]
            /\ last' = Ret("SetEnv", FALSE, "ok", EmptyStr)
  /\ UNCHANGED <<backend, RepoName, layerVars>>

\* RemoteImage.SetEnv
RemoteSetEnv(key, val) ==
  /\ IsRemote
  /\ Len(remoteSetEnv(Config.Env, key, val)) <= MaxEnv
  /\ IF ~Config.present
       THEN /\ last' = Ret("SetEnv", FALSE, "NotFound", EmptyStr)
            /\ UNCHANGED Config
       ELSE /\ Config' = [Config EXCEPT !.Env = remoteSetEnv(Config.Env, key, val)]
            /\ last' = Ret("SetEnv", FALSE, "ok", EmptyStr)
  /\ UNCHANGED <<backend, RepoName, layerVars>>

\* ------------------------------------------------- specifications
\* The store's answer is consulted only by a call that finds the gate unfired.
Outcomes(S) == IF prevOnce THEN {"ok"} ELSE S

LayerNext ==
  \/ \E n \in Names : LocalRename(n)
  \/ \E f \in UserPaths : LocalAddLayer(f)
  \/ \E d \in DiffIDs, o \in Outcomes(FetchOutcomes) : LocalReuseLayer(d, o)
  \/ \E d \in DiffIDs, o \in Outcomes(FetchOutcomes) : LocalGetLayer(d, o)
  \/ LocalTopLayer
  \/ \E d \in DiffIDs, n \in Names, o \in Outcomes(FetchOutcomes) : LocalRebase(d, n, o)
  \/ \E n \in Names : RemoteRename(n)
  \/ \E f \in UserPaths : RemoteAddLayer(f)
  \/ \E d \in DiffIDs, o \in Outcomes(RemoteOutcomes) : RemoteReuseLayer(d, o)
  \/ \E d \in DiffIDs : RemoteGetLayer(d)
  \/ RemoteTopLayer
  \/ \E d \in DiffIDs, n \in Names : RemoteRebase(d, n)

SaveNext ==
  \/ SaveStart
  \/ WriteConfig
  \/ SaveLayer
  \/ WriteManifest
  \/ SaveClose
  \/ SaveJoin
  \/ \E reachable \in BOOLEAN : SaveInspect(reachable)
  \/ SaveUnwind
  \/ \E closes \in BOOLEAN : LoadFails(closes)
  \/ \E imports, respOK \in BOOLEAN : LoadEnds(imports, respOK)
  \/ \E ok \in BOOLEAN : RemoteSave(ok)

ConfigNext ==
  \/ \E k \in LabelKeys : LocalLabel(k)
  \/ \E k \in LabelKeys : RemoteLabel(k)
  \/ \E k \in EnvKeys : LocalEnv(k)
  \/ \E k \in EnvKeys : RemoteEnv(k)
  \/ \E k \in LabelKeys, v \in LabelVals : LocalSetLabel(k, v)
  \/ \E k \in LabelKeys, v \in LabelVals : RemoteSetLabel(k, v)
  \/ \E k \in EnvKeys, v \in EnvVals : LocalSetEnv(k, v)
  \/ \E k \in EnvKeys, v \in EnvVals : RemoteSetEnv(k, v)

\* A caller has one operation in progress at a time: while it is in Save it
\* calls nothing else.
Next ==
  \/ Idle /\ LayerNext
  \/ Idle /\ ConfigNext
  \/ SaveNext

\* Save and the operations that decide what it writes.
SaveSpecNext ==
  \/ Idle /\ \E f \in UserPaths : LocalAddLayer(f)
  \/ Idle /\ \E d \in DiffIDs, o \in Outcomes(FetchOutcomes) : LocalReuseLayer(d, o)
  \/ Idle /\ \E f \in UserPaths : RemoteAddLayer(f)
  \/ SaveNext

\* Every operation of an Image.
Spec == Init /\ [][Next]_vars

\* The layer operations alone, on each image Init can build.
SpecLayers == Init /\ [][LayerNext]_vars

\* Rebase onto bases of either backend, on the images AddLayer and ReuseLayer
\* build.
RebaseNext ==
  \/ \E f \in UserPaths : LocalAddLayer(f)
  \/ \E f \in UserPaths : RemoteAddLayer(f)
  \/ \E d \in DiffIDs, o \in Outcomes(FetchOutcomes) : LocalReuseLayer(d, o)
  \/ \E d \in DiffIDs, k \in BaseKinds, n \in Names, o \in Outcomes(FetchOutcomes) :
       LocalRebaseOn(d, k, n, o)
  \/ \E d \in DiffIDs, k \in BaseKinds, n \in Names : RemoteRebaseOn(d, k, n)

SpecRebase == Init /\ [][RebaseNext]_vars

\* Save, step by step, with its import goroutine.
SpecSave == Init /\ [][SaveSpecNext]_vars

\* The configuration operations alone.
SpecConfig == Init /\ [][ConfigNext]_vars

\* ------------------------------------------------- properties
\* The image's layers can be read: always for a local image, for a remote
\* image when the registry holds it.
LayersReadable == IsLocal \/ Config.present

\* A step of Rebase(d, n) on either backend.
RebaseStep(d, n) ==
  \/ \E o \in FetchOutcomes : LocalRebase(d, n, o)
  \/ RemoteRebase(d, n)

\* A step of ReuseLayer(d) on either backend.
ReuseStep(d) ==
  \/ \E o \in FetchOutcomes : LocalReuseLayer(d, o)
  \/ \E o \in RemoteOutcomes : RemoteReuseLayer(d, o)

\* C1: on both backends a successful rebase(d, newBase) of an image with layers
\* L, d first found at index i, leaves layers = newBase.layers followed by the
\* last len(L) - i - 1 entries of L.
C1_RebaseKeepsTopLayers ==
  [][\A d \in DiffIDs, n \in Names :
       (last'.op = "Rebase" /\ last'.err = "ok" /\ RebaseStep(d, n))
         => Layers' = store[n].layers
                        \o SubSeq(Layers, FirstIndex(Layers, d) + 1, Len(Layers))]_vars

\* C2: on both backends rebase(d, newBase) with d not among the image's layers
\* fails, with SplitPointNotFound when the layers can be read, and leaves layers,
\* the layer path list and the previous-image cache as they were.
C2_RebaseAbsentSplit ==
  [][\A d \in DiffIDs, n \in Names :
       (last'.op = "Rebase" /\ d \notin Range(Layers) /\ RebaseStep(d, n))
         => /\ last'.err # "ok"
            /\ LayersReadable => last'.err = "SplitPointNotFound"
            /\ UNCHANGED <<Layers, layerPaths, easyAddLayers, cacheVars>>]_vars

C2_Witness ==
  /\ IsLocal
  /\ last.op = "Rebase"
  /\ last.err = "SplitPointNotFound"
  /\ Len(Layers) > 0

\* C3: once the one fetch of the previous image has failed with E, every
\* operation that goes through the gate returns E.
C3_FetchErrorSticky ==
  (last.cache /\ fetchErr \notin {"none", "ok"}) => last.err = fetchErr

C5_SetEnvInPlace ==
  [][\A k \in EnvKeys, v \in EnvVals :
       (/\ last'.op = "SetEnv"
        /\ last'.err = "ok"
        /\ LocalSetEnv(k, v) \/ RemoteSetEnv(k, v))
         => /\ Config'.Env =
                 IF EnvMatches(Config.Env, k) # {}
                   THEN [Config.Env EXCEPT ![Min(EnvMatches(Config.Env, k))] =
                           EnvEntry(k, v)]
                   ELSE Append(Config.Env, EnvEntry(k, v))
            /\ Cardinality(EnvMatches(Config'.Env, k)) = 1]_vars

\* C6: reuseLayer(d) that does not take the fast path, with the previous image
\* loaded and d the diff ID of one of its layers, succeeds and appends exactly
\* d to layers; on the local backend the appended path is a layer file of the
\* export whose content hashes to d.
C6_ReuseAppends ==
  [][\A d \in DiffIDs :
       (/\ last'.op = "ReuseLayer"
        /\ last'.cache
        /\ fetchErr' = "ok"
        /\ d \in Range(snapshot')
        /\ ReuseStep(d))
         => /\ last'.err = "ok"
            /\ Layers' = Append(Layers, d)
            /\ IsLocal =>
                 /\ Len(layerPaths') = Len(layerPaths) + 1
                 /\ SubSeq(layerPaths', 1, Len(layerPaths)) = layerPaths
                 /\ layerPaths'[Len(layerPaths')].kind = "prev"
                 /\ layerPaths'[Len(layerPaths')].gen = prevDir'
                 /\ snapshot'[layerPaths'[Len(layerPaths')].idx] = d]_vars

C6_Witness ==
  /\ IsLocal
  /\ last.op = "ReuseLayer"
  /\ last.cache
  /\ last.err = "ok"
  /\ Len(Layers) > 1
  /\ Layers[Len(Layers)] # snapshot[1]

\* C7: reuseLayer(d) where d is neither the head of the fast-path hint nor a
\* layer of the previous image fails and leaves layers and the layer path list
\* as they were; the failure is LayerNotFound unless the call's own load of
\* the previous image failed.
C7_ReuseAbsent ==
  [][\A d \in DiffIDs :
       (/\ last'.op = "ReuseLayer"
        /\ ~(easyAddLayers # <<>> /\ Head(easyAddLayers) = d)
        /\ d \notin Range(snapshot')
        /\ ReuseStep(d))
         => /\ last'.err # "ok"
            /\ (prevOnce \/ fetchErr' = "ok") => last'.err = "LayerNotFound"
            /\ UNCHANGED <<Layers, layerPaths>>]_vars

C7_Witness ==
  /\ last.op = "ReuseLayer"
  /\ last.err = "LayerNotFound"
  /\ fetchErr = "ok"
  /\ snapshot # <<>>

\* C8: topLayerDiffID() returns an EmptyImage error when layers is empty and
\* the last layer's diff ID otherwise.
C8_TopLayerEmpty ==
  (last.op = "TopLayer" /\ LayersReadable)
    => IF Len(Layers) = 0
         THEN last.err = "EmptyImage"
         ELSE last.err = "ok" /\ last.val = <<Layers[Len(Layers)]>>

\* A step of getLabel(k) or getEnv(k) on either backend.
LabelStep(k) == last'.op = "Label" /\ (LocalLabel(k) \/ RemoteLabel(k))
EnvStep(k) == last'.op = "Env" /\ (LocalEnv(k) \/ RemoteEnv(k))

\* C9: getLabel and getEnv fail with NotFound on an image that does not exist,
\* return "" without an error for a key the existing image has no entry for,
\* and change nothing of the image.
C9_GettersAbsent ==
  [][/\ \A k \in LabelKeys :
          LabelStep(k) =>
            /\ ~Config.present => last'.err = "NotFound"
            /\ (Config.present /\ k \notin DOMAIN Config.Labels) =>
                 (last'.err = "ok" /\ last'.val = EmptyStr)
            /\ UNCHANGED <<backend, RepoName, Config, layerVars>>
     /\ \A k \in EnvKeys :
          EnvStep(k) =>
            /\ ~Config.present => last'.err = "NotFound"
            /\ (Config.present /\ EnvMatches(Config.Env, k) = {}) =>
                 (last'.err = "ok" /\ last'.val = EmptyStr)
            /\ UNCHANGED <<backend, RepoName, Config, layerVars>>]_vars

\* getEnv found no entry for its key on an image that has other entries.
C9_Witness ==
  /\ last.op = "Env"
  /\ last.err = "ok"
  /\ last.val = EmptyStr
  /\ Config.present
  /\ Config.Env # <<>>
  /\ \E k \in EnvKeys : EnvMatches(Config.Env, k) = {}

IsPrefix(a, b) == Len(a) <= Len(b) /\ SubSeq(b, 1, Len(a)) = a

\* C10: local rename(target), when the target's persisted stack T has the
\* current layers L as a prefix, sets the hint to the rest of T; and each
\* reuseLayer of the hint's head appends that diff ID, advances the hint and
\* leaves the previous-image cache untouched: no fetch is made.
C10_FastPath ==
  [][/\ \A n \in Names :
          (/\ last'.op = "Rename"
           /\ store[n].found
           /\ IsPrefix(Layers, store[n].layers)
           /\ LocalRename(n))
            => Layers \o easyAddLayers' = store[n].layers
     /\ \A d \in DiffIDs :
          (/\ last'.op = "ReuseLayer"
           /\ easyAddLayers # <<>>
           /\ Head(easyAddLayers) = d
           /\ \E o \in FetchOutcomes : LocalReuseLayer(d, o))
            => /\ last'.err = "ok"
               /\ Layers' = Append(Layers, d)
               /\ easyAddLayers' = Tail(easyAddLayers)
               /\ UNCHANGED cacheVars]_vars

\* An image built with no layers was renamed and two layers and more of the
\* hint were reused, with no fetch and no other change of its layers.
C10_Witness ==
  /\ IsLocal
  /\ ~Config.present
  /\ last.op = "ReuseLayer"
  /\ ~last.cache
  /\ last.err = "ok"
  /\ fetches = 0
  /\ ~prevOnce
  /\ Len(Layers) >= 2
  /\ \A i \in DOMAIN layerPaths : layerPaths[i] = EmptyPath
  /\ Layers \o easyAddLayers = store[RepoName].layers

\* A local Save has returned and nothing was called since.
SaveReturned == IsLocal /\ Idle /\ last.op = "Save"

\* C11: a local Save returns an image id only if the inspect of that id after
\* the import succeeded; when the inspect reports not found, Save returns the
\* SaveFailed error and no id.
C11_SaveReturnsInspected ==
  SaveReturned =>
    /\ (last.val # <<>> => inspected = "found" /\ last.err = "ok")
    /\ (inspected = "notfound" => last.err = "SaveFailed" /\ last.val = <<>>)

\* The daemon answered the load without importing the image, and the inspect
\* did not find the id.
C11_Witness ==
  /\ SaveReturned
  /\ loadErr = "ok"
  /\ inspected = "notfound"
  /\ last.err = "SaveFailed"

\* The fields of an image a caller can observe.
imageVars == <<RepoName, Config, Layers, layerPaths, easyAddLayers>>

\* C12: a Rebase whose newBase is of the other backend kind fails with the
\* BackendUnsupported error and leaves the image unchanged, on the local
\* backend as on the remote one.
C12_ForeignBaseUnsupported ==
  [][\A d \in DiffIDs, n \in Names :
       (/\ last'.op = "Rebase"
        /\ \/ \E o \in FetchOutcomes : LocalRebaseOn(d, "remote", n, o)
           \/ RemoteRebaseOn(d, "local", n))
       => /\ last'.err = "BackendUnsupported"
          /\ UNCHANGED imageVars]_vars

\* C13: a successful Rebase leaves the config (labels, environment,
\* entrypoint, command) and the name as they were; and when the split layer is
\* the top layer, so that no layer is retained, the layers become exactly
\* newBase's layers and the top layer is newBase's top layer.
C13_RebaseFrame ==
  [][\A d \in DiffIDs, n \in Names :
       (last'.op = "Rebase" /\ last'.err = "ok" /\ RebaseStep(d, n))
       => /\ UNCHANGED <<Config, RepoName>>
          /\ keepLayersOf(Layers, d) = 0
               => /\ Layers' = store[n].layers
                  /\ Layers' # <<>>
                  /\ Layers'[Len(Layers')] = store[n].layers[Len(store[n].layers)]]_vars

\* The local image "app", with its labels, rebased at its top layer onto "base2".
C13_Witness ==
  /\ IsLocal
  /\ last.op = "Rebase" /\ last.err = "ok"
  /\ RepoName = "app"
  /\ Config = InitStore["app"].cfg
  /\ Layers = InitStore["base2"].layers

\* The next statement of Save writes into the pipe.
NextIsWrite ==
  \/ pc = "config"
  \/ /\ pc = "layers"
     /\ \/ next > Len(layerPaths)
        \/ layerPaths[next] # EmptyPath /\ PathExists(layerPaths[next])
  \/ pc = "close"
  \/ pc = "unwind" /\ ~twErr

\* C14: a local Save always returns: when the import fails or stops reading,
\* the writer of the archive is released with an error, so that Save is never
\* blocked in a write to the pipe while the import goroutine is blocked
\* sending its result.
C14_SaveNeverStuck ==
  ~(NextIsWrite /\ pipe = "open" /\ loader = "sending")

\* C15: when ImageLoad returns an error, the local Save returns that error
\* and no image id.
C15_ImportErrorReturned ==
  (SaveReturned /\ loadErr = "LoadFailed")
  => (last.err = "LoadFailed" /\ last.val = <<>>)

\* C16: whenever a local Save has returned, by whichever return statement, its
\* import goroutine has finished.
C16_NoGoroutineLeft ==
  Idle => loader \in {"none", "exited"}

\* The k layers of ls above the first occurrence of top; none when top is
\* not a layer of ls.
Retained(ls, top) ==
  IF FirstIndex(ls, top) = 0 THEN <<>>
  ELSE SubSeq(ls, FirstIndex(ls, top) + 1, Len(ls))

\* C17: the layers change only by one element appended (AddLayer,
\* ReuseLayer) or by the single replacement of a Rebase: when a Rebase call
\* returns, with nil or with any error, the layers are what they were before
\* the call or newBase's layers followed by all the retained layers.
C17_RebaseAtomic ==
  [][/\ last'.op # "Rebase"
        => \/ Layers' = Layers
           \/ Len(Layers') = Len(Layers) + 1 /\ IsPrefix(Layers, Layers')
     /\ \A d \in DiffIDs, n \in Names :
          (last'.op = "Rebase" /\ RebaseStep(d, n))
          => \/ Layers' = Layers
             \/ Layers' = store[n].layers \o Retained(Layers, d)]_vars

\* C18: once a local Save has done the import, the previous-image cache is
\* reset (no export directory, no index, the gate armed again) whatever state
\* the cache was in, also after a fetch that had failed, so that the next
\* ReuseLayer, GetLayer or Rebase fetches the persisted image anew.
C18_CacheResetAfterSave ==
  [][\A reachable \in BOOLEAN :
       SaveInspect(reachable)
       => (prevDir' = 0 /\ prevMap' = NoMap /\ ~prevOnce')]_vars

\* C19: an AddLayer that succeeds appends exactly the hash of the content to
\* the layers, leaves the earlier layers and the config as they were and, on
\* the local backend, clears the hint; an AddLayer that fails because the
\* content cannot be read changes neither the layers nor the hint.
C19_AddLayerFrame ==
  [][\A f \in UserPaths :
       (last'.op = "AddLayer" /\ (LocalAddLayer(f) \/ RemoteAddLayer(f)))
       => IF last'.err = "ok"
            THEN /\ Layers' = Append(Layers, f)
                 /\ UNCHANGED Config
                 /\ IsLocal => easyAddLayers' = <<>>
            ELSE /\ f \notin UserFiles
                 /\ UNCHANGED <<Layers, layerPaths, easyAddLayers>>]_vars

\* A layer added to the local image "base" after it was renamed to "app",
\* whose stack it shares: the hint the rename left is gone.
C19_Witness ==
  /\ IsLocal
  /\ last.op = "AddLayer" /\ last.err = "ok"
  /\ RepoName = "app"
  /\ Layers = <<"b1", "n1">>
  /\ easyAddLayers = <<>>

\* Save has written the whole archive and has not returned yet.
ArchiveWritten == pc \in {"close", "join", "inspect"}

\* C20: in the archive a local Save writes, the config's diff_ids are the
\* layers in order, the manifest's Layers list is as long as the layers, its
\* position i is the empty placeholder exactly when layer i has an empty
\* path, and there is one layer entry for each layer with a non-empty path.
C20_ArchiveContents ==
  ArchiveWritten =>
    /\ stream.config = <<Layers>>
    /\ Len(stream.manifest) = 1
    /\ Len(stream.manifest[1]) = Len(Layers)
    /\ \A i \in DOMAIN layerPaths :
         (stream.manifest[1][i] = EmptyPath) <=> (layerPaths[i] = EmptyPath)
    /\ Len(stream.layers) =
         Cardinality({i \in DOMAIN layerPaths : layerPaths[i] # EmptyPath})

\* An archive of an image with a layer taken by reference and a layer with a
\* file.
C20_Witness ==
  /\ ArchiveWritten
  /\ \E i, j \in DOMAIN layerPaths :
       layerPaths[i] = EmptyPath /\ layerPaths[j] # EmptyPath

\* C21: on the local backend, after any sequence of operations, layerPaths is
\* as long as the layers, and its position i describes layer i: it is the
\* empty path or the path of a file which, while it exists, hashes to layer i.
C21_PathsMatchLayers ==
  IsLocal =>
    /\ Len(layerPaths) = Len(Layers)
    /\ \A i \in DOMAIN layerPaths :
         (layerPaths[i] # EmptyPath /\ PathExists(layerPaths[i]))
         => FileSha(layerPaths[i]) = Layers[i]

\* A rebased local image: the new base's layers by reference, a retained
\* layer by its file in the export.
C21_Witness ==
  /\ IsLocal
  /\ last.op = "Rebase" /\ last.err = "ok"
  /\ \E i, j \in DOMAIN layerPaths :
       /\ layerPaths[i] = EmptyPath
       /\ layerPaths[j].kind = "prev"
       /\ PathExists(layerPaths[j])

\* C22: on the local backend, whenever the hint is not empty the layers
\* followed by the hint are the layer stack of the image the instance was
\* renamed to: every operation that changes the layers, except a reuse of the
\* hint's head, leaves the hint empty (AddLayer, the slow path of ReuseLayer,
\* Rebase for any k, also k = 0).
C22_HintExtendsLayers ==
  (IsLocal /\ easyAddLayers # <<>>)
  => Layers \o easyAddLayers = store[RepoName].layers

\* A call of setEnv(k, v) that returned success.
SetEnvStep(k, v) ==
  /\ last'.op = "SetEnv"
  /\ last'.err = "ok"
  /\ LocalSetEnv(k, v) \/ RemoteSetEnv(k, v)

\* C23: on both backends and any existing image, after setEnv(k, v) returns
\* success getEnv(k) returns v, also when k had another value before and when
\* v contains the character "=".
C23_SetEnvThenGetEnv ==
  [][\A k \in EnvKeys, v \in EnvVals :
       SetEnvStep(k, v) => EnvLookup(Config'.Env, k) = [err |-> "ok", val |-> v]]_vars

\* A call of setLabel(k, v), whatever it returned.
SetLabelStep(k, v) ==
  /\ last'.op = "SetLabel"
  /\ LocalSetLabel(k, v) \/ RemoteSetLabel(k, v)

\* C24: on both backends and any existing image, also one loaded with no
\* labels at all, setLabel(k, v) succeeds, getLabel(k) then returns v and every
\* other label is unchanged; on an image that does not exist setLabel fails
\* and changes nothing.
C24_SetLabelThenGetLabel ==
  [][\A k \in LabelKeys, v \in LabelVals :
       SetLabelStep(k, v) =>
         IF Config.present
           THEN /\ last'.err = "ok"
                /\ LabelLookup(Config', k) = v
                /\ \A o \in (DOMAIN Config.Labels \cup DOMAIN Config'.Labels) \ {k} :
                     LabelLookup(Config', o) = LabelLookup(Config, o)
                /\ Config'.Env = Config.Env
           ELSE /\ last'.err = "NotFound"
                /\ UNCHANGED <<backend, RepoName, Config, layerVars>>]_vars

====
